---- MODULE Spec2Model ----
(***************************************************************************)
(* Model of nonebot_plugin_recall: the group-message cache, the recall     *)
(* handler with its three awaited collaborator calls, and the content      *)
(* normaliser.                                                             *)
(*                                                                         *)
(* The Chinese literals of the source are written in pinyin, since the    *)
(* module text is ASCII:                                                   *)
(*   "chehuile yitiao xiaoxi:"  the notice prefix of line 207              *)
(*   "[neirong wei buhuo]"      the not-captured label of line 183         *)
(*   "[kong xiaoxi]"            the empty-message label of line 203        *)
(*   "chehuile yitiao yuyin"    the voice summary of line 191              *)
(*   "[shipin]" "[wenjian]" "[biaoqing" the placeholders of lines 76-109   *)
(***************************************************************************)
EXTENDS Integers, Sequences, FiniteSets, TLC

VARIABLES
    cache,        \* _message_cache: insertion-ordered entries [key, msg]
    handlers,     \* the in-flight and finished group_recall handler calls
    evictedKey,   \* history: the key the most recent cache operation evicted, or NoKey
    arg,          \* the argument of the pure function applied directly
    result        \* what the function returned for arg, one entry per application

vars == <<cache, handlers, evictedKey, arg, result>>

----------------------------------------------------------------------------
(* Bounds *)

MaxGroup == 2          \* group ids are 1..MaxGroup
MaxMsgId == 3          \* message ids are 1..MaxMsgId
MaxRecalls == 2        \* number of recall notifications delivered
cache_max_size == 2    \* _cache_max_size, scaled down from 5000

Groups == 1..MaxGroup
MsgIds == 1..MaxMsgId
\* the user whose message is recalled, and who recalls it
Users == {1}
Operators == {1, 2}
Slots == 1..MaxRecalls

\* plugin_config.recall_group_whitelist, fixed after load
Whitelist == {1}

NoKey == <<0, 0>>

----------------------------------------------------------------------------
(* Python values and strings *)

PyStrVal(s) == [py |-> "str", repr |-> s]
PyIntVal(s) == [py |-> "int", repr |-> s]
PyNone == [py |-> "NoneType", repr |-> "None"]

\* str(v)
PyStr(v) == v.repr

\* d.get(k, default)
Get(d, k, default) == IF k \in DOMAIN d THEN d[k] ELSE default

\* s.strip() on the strings the model uses
Strip(s) ==
    CASE s = " " -> ""
      [] s = " Al " -> "Al"
      [] s = " Bob " -> "Bob"
      [] s = " zan " -> "zan"
      [] OTHER -> s

\* x or y on strings
StrOr(x, y) == IF x # "" THEN x ELSE y

----------------------------------------------------------------------------
(* Segments and messages *)

Seg(t, d) == [type |-> t, data |-> d]

\* MessageSegment.text(text)
TextSeg(s) == Seg("text", [text |-> PyStrVal(s)])

ImageSeg(f) == Seg("image", [file |-> PyStrVal(f)])
RecordSeg(f) == Seg("record", [file |-> PyStrVal(f)])
AtSeg(q) == Seg("at", [qq |-> PyStrVal(q)])
ReplySeg(i) == Seg("reply", [id |-> PyStrVal(i)])
VideoSeg(f) == Seg("video", [file |-> PyStrVal(f)])
FileSeg(f) == Seg("file", [file |-> PyStrVal(f)])
FaceSeg(d) == Seg("face", d)

----------------------------------------------------------------------------
(* ContentNormalizer *)

\* int(v) succeeds
IntOk(v) ==
    \/ v.py \in {"int", "float", "bool"}
    \/ v.py = "str" /\ v.repr \in {"3", " 3 ", "1", "76"}

\* int(v) where it succeeds: floats truncate, strings are stripped and parsed
IntOf(v) ==
    CASE v.repr \in {"3", " 3 ", "3.9"} -> 3
      [] v.repr = "1" -> 1
      [] v.repr = "76" -> 76
      [] v.repr = "True" -> 1
      [] OTHER -> 0

\* isinstance(v, dict)
IsDict(v) == v.py = "dict"

is_unsupported_face(segment) ==
    IF segment.type # "face" THEN FALSE
    ELSE LET raw == Get(segment.data, "raw", PyNone) IN
         IF ~IsDict(raw) THEN FALSE
         ELSE LET face_type == Get(raw, "faceType", PyNone) IN
              IF IntOk(face_type) THEN IntOf(face_type) = 3 ELSE FALSE

unsupported_face_placeholder(segment) ==
    LET raw == Get(segment.data, "raw", PyNone)
        face_text == IF IsDict(raw)
                     THEN Strip(PyStr(Get(raw, "faceText", PyStrVal(""))))
                     ELSE ""
        face_id == Get(segment.data, "id", PyNone)
    IN  IF IsDict(raw) /\ face_text # "" THEN "[biaoqing:" \o face_text \o "]"
        ELSE IF face_id # PyNone THEN "[biaoqing:" \o PyStr(face_id) \o "]"
        ELSE "[biaoqing]"

\* mutant of build_segment: everything but text is dropped
build_segment_text_only(segment) ==
    IF segment.type = "text" /\ PyStr(Get(segment.data, "text", PyStrVal(""))) # ""
    THEN <<TextSeg(PyStr(Get(segment.data, "text", PyStrVal(""))))>>
    ELSE <<>>

\* mutant of build_segment: an at segment leaves an empty text behind
build_segment_at_empty_text(segment) ==
    IF segment.type = "at" THEN <<TextSeg("")>>
    ELSE IF segment.type \in {"reply", "record"} THEN <<>>
    ELSE IF segment.type = "text"
         THEN LET text == PyStr(Get(segment.data, "text", PyStrVal(""))) IN
              IF text # "" THEN <<TextSeg(text)>> ELSE <<>>
    ELSE IF segment.type = "image" THEN <<segment>>
    ELSE IF segment.type = "face"
         THEN IF is_unsupported_face(segment)
              THEN <<TextSeg(unsupported_face_placeholder(segment))>>
              ELSE <<segment>>
    ELSE IF segment.type = "video" THEN <<TextSeg("[shipin]")>>
    ELSE IF segment.type = "file" THEN <<TextSeg("[wenjian]")>>
    ELSE <<TextSeg("[" \o segment.type \o "]")>>

\* one iteration of the loop of _build_non_voice_message: what it appends
build_segment(segment) ==
    LET segment_type == segment.type IN
    IF segment_type \in {"at", "reply", "record"} THEN <<>>
    ELSE IF segment_type = "text"
         THEN LET text == PyStr(Get(segment.data, "text", PyStrVal(""))) IN
              IF text # "" THEN <<TextSeg(text)>> ELSE <<>>
    ELSE IF segment_type = "image" THEN <<segment>>
    ELSE IF segment_type = "face"
         THEN IF is_unsupported_face(segment)
              THEN <<TextSeg(unsupported_face_placeholder(segment))>>
              ELSE <<segment>>
    ELSE IF segment_type = "video" THEN <<TextSeg("[shipin]")>>
    ELSE IF segment_type = "file" THEN <<TextSeg("[wenjian]")>>
    ELSE <<TextSeg("[" \o segment_type \o "]")>>

\* mutant of build_non_voice_message: the content is built back to front
RECURSIVE build_non_voice_message_reversed(_)
build_non_voice_message_reversed(message) ==
    IF message = <<>> THEN <<>>
    ELSE build_non_voice_message_reversed(Tail(message)) \o build_segment(Head(message))

RECURSIVE build_non_voice_message(_)
build_non_voice_message(message) ==
    IF message = <<>> THEN <<>>
    ELSE build_segment(Head(message)) \o build_non_voice_message(Tail(message))

\* [segment for segment in recalled if segment.type == "record"]
RECURSIVE voice_segments(_)
voice_segments(recalled) ==
    IF recalled = <<>> THEN <<>>
    ELSE (IF Head(recalled).type = "record" THEN <<Head(recalled)>> ELSE <<>>)
         \o voice_segments(Tail(recalled))

----------------------------------------------------------------------------
(* The messages the events and the live fetch carry *)

UnsupportedFace ==
    FaceSeg([id |-> PyIntVal("76"),
             raw |-> [py |-> "dict", faceType |-> PyIntVal("3"),
                      faceText |-> PyStrVal(" zan ")]])

PlainFace == FaceSeg([id |-> PyIntVal("76")])

MsgMixed ==
    <<TextSeg("hi"), AtSeg("123"), ImageSeg("a.png"), UnsupportedFace,
      PlainFace, VideoSeg("v.mp4"), FileSeg("f.txt"), Seg("json", [data |-> PyStrVal("{}")])>>
MsgVoice2 == <<RecordSeg("r1.amr"), TextSeg("hi"), ImageSeg("a.png"), RecordSeg("r2.amr")>>
MsgEmptied == <<AtSeg("123"), ReplySeg("9"), TextSeg("")>>

\* contents of GroupMessageEvent.get_message() for a message id: an id names
\* one message of the platform; id 1 is also delivered with a second content
MessagesOf(message_id) ==
    CASE message_id = 1 -> {MsgMixed, MsgVoice2}
      [] message_id % 2 = 0 -> {MsgVoice2}
      [] OTHER -> {MsgMixed}

\* contents get_msg can return
FetchMessages == {MsgEmptied}

----------------------------------------------------------------------------
(* MessageCache: the dict _message_cache, in insertion order *)

Keys(c) == {c[i].key : i \in 1..Len(c)}

\* position of key in the dict, 0 when absent
IndexOf(c, key) ==
    IF key \in Keys(c) THEN CHOOSE i \in 1..Len(c) : c[i].key = key ELSE 0

\* mutant of dict_del: nothing is removed
dict_del_noop(c, key) == c

\* mutant of dict_del: the oldest entry is removed, whatever the key
dict_del_oldest(c, key) == IF c = <<>> THEN c ELSE Tail(c)

\* the dict without key
dict_del(c, key) ==
    LET i == IndexOf(c, key) IN
    IF i = 0 THEN c ELSE SubSeq(c, 1, i - 1) \o SubSeq(c, i + 1, Len(c))

\* mutant of dict_set: a stored key moves to the end of the order
dict_set_move_to_end(c, key, msg) ==
    Append(dict_del(c, key), [key |-> key, msg |-> msg])

\* _message_cache[key] = msg: an existing key keeps its position
dict_set(c, key, msg) ==
    IF key \in Keys(c)
    THEN [c EXCEPT ![IndexOf(c, key)] = [key |-> key, msg |-> msg]]
    ELSE Append(c, [key |-> key, msg |-> msg])

\* mutant of oldest: the most recently inserted key
oldest_newest(c) == c[Len(c)].key

\* next(iter(_message_cache))
oldest(c) == c[1].key

\* mutant of cache_put: the store without the capacity eviction
cache_put_no_evict(c, key, msg) == dict_set(c, key, msg)

\* the put of cache_group_message: the store and the capacity eviction
cache_put(c, key, msg) ==
    LET stored == dict_set(c, key, msg) IN
    IF Len(stored) > cache_max_size THEN dict_del(stored, oldest(stored)) ELSE stored

\* the key that put evicts, NoKey when it evicts none
cache_put_evicts(c, key, msg) ==
    LET stored == dict_set(c, key, msg) IN
    IF Len(stored) > cache_max_size THEN oldest(stored) ELSE NoKey

\* _message_cache.pop(key, None)
None == [isNone |-> TRUE, msg |-> <<>>]
Some(m) == [isNone |-> FALSE, msg |-> m]
\* mutant of cache_pop_value: the pop reports a miss for every key
cache_pop_value_miss(c, key) == None

cache_pop_value(c, key) ==
    IF key \in Keys(c) THEN Some(c[IndexOf(c, key)].msg) ELSE None

\* mutant of in_whitelist: every group passes the gate
in_whitelist_any(group_id) == TRUE

in_whitelist(group_id) == group_id \in Whitelist

\* mutant of is_self_recall: recalls by another operator pass the gate
is_self_recall_any(user_id, operator_id) == TRUE

\* line 171 negated: int(event.user_id) == int(event.operator_id)
is_self_recall(user_id, operator_id) == user_id = operator_id

----------------------------------------------------------------------------
(* Collaborator outcomes *)

\* get_group_member_info answers
Members == { [card |-> PyNone, nickname |-> PyStrVal(" Al ")] }

\* an awaited call returns a value, raises ActionFailed, or raises another
\* exception, which the except clauses of lines 119 and 130 do not catch
LookupOutcomes ==
    {[kind |-> "ok", member |-> mb] : mb \in Members}
    \cup {[kind |-> "ActionFailed"], [kind |-> "OtherException"]}

FetchOutcomes ==
    {[kind |-> "ok", msg |-> m] : m \in FetchMessages}
    \cup {[kind |-> "unparsable"], [kind |-> "ActionFailed"], [kind |-> "OtherException"]}

SendOutcomes == {"ok", "failed"}

\* str(v or "")
StrOfOr(v) == IF v = PyNone \/ v.repr = "" THEN "" ELSE PyStr(v)

\* lines 122-124 of _get_member_name
member_name(member, user_id) ==
    LET card == Strip(StrOfOr(Get(member, "card", PyNone)))
        nickname == Strip(StrOfOr(Get(member, "nickname", PyNone)))
    IN  StrOr(card, StrOr(nickname, ToString(user_id)))

----------------------------------------------------------------------------
(* Outbound messages *)

StrMessage(s) == [kind |-> "str", text |-> s, segs |-> <<>>]
SegMessage(segs) == [kind |-> "Message", text |-> "", segs |-> segs]

NoticeUncaptured(name) == StrMessage(name \o "chehuile yitiao xiaoxi:[neirong wei buhuo]")
NoticeVoice(name) == StrMessage(name \o "chehuile yitiao yuyin")
NoticeEmpty(name) == StrMessage(name \o "chehuile yitiao xiaoxi:[kong xiaoxi]")
NoticeContent(name, content) ==
    SegMessage(<<TextSeg(name \o "chehuile yitiao xiaoxi:")>> \o content)

----------------------------------------------------------------------------
(* The group_recall handler.  pc is where the coroutine stands: "idle" before
   the notification, "await_lookup" / "await_fetch" / "await_send" suspended in
   a collaborator call, "done" returned, "raised" left by an exception (exc
   names the call that raised).  lookups, fetches, looked, fetched, popped and
   sent record the calls the handler made and what they answered. *)

IdleHandler ==
    [pc |-> "idle", group_id |-> 0, message_id |-> 0, user_id |-> 0,
     operator_id |-> 0, name |-> "", popped |-> "none", recalled |-> None,
     lookups |-> 0, fetches |-> 0, looked |-> "none", fetched |-> "none",
     sent |-> <<>>, voice |-> <<>>, exc |-> "none"]

\* await bot.send_group_msg(...): the call is issued and the handler suspends
issue_send(h, message) ==
    [h EXCEPT !.pc = "await_send",
              !.sent = Append(@, [message |-> message, status |-> "pending"])]

\* lines 180-210 up to the first send, with recalled resolved
dispatch(h) ==
    IF h.recalled.isNone
    THEN issue_send(h, NoticeUncaptured(h.name))
    ELSE LET voice == voice_segments(h.recalled.msg) IN
         IF voice # <<>>
         THEN issue_send([h EXCEPT !.voice = voice], NoticeVoice(h.name))
         ELSE LET content == build_non_voice_message(h.recalled.msg) IN
              IF content = <<>>
              THEN issue_send(h, NoticeEmpty(h.name))
              ELSE issue_send(h, NoticeContent(h.name, content))

\* lines 175-178 for the handler: the pop, then the live fetch on a miss
after_name(h, c) ==
    LET cache_key == <<h.group_id, h.message_id>>
        recalled == cache_pop_value(c, cache_key)
    IN  IF recalled.isNone
        THEN [h EXCEPT !.popped = "miss", !.recalled = None,
                       !.fetches = @ + 1, !.pc = "await_fetch"]
        ELSE dispatch([h EXCEPT !.popped = "hit", !.recalled = recalled])

\* mutant of after_name_cache: the lookup reads the entry and leaves it cached
after_name_cache_keep(h, c) == c

\* mutant of after_name_cache: the lookup empties the cache
after_name_cache_clear(h, c) == <<>>

\* lines 175-176 for the cache
after_name_cache(h, c) == dict_del(c, <<h.group_id, h.message_id>>)

----------------------------------------------------------------------------
(* Actions *)

Init ==
    /\ cache = <<>>
    /\ handlers = [s \in Slots |-> IdleHandler]
    /\ evictedKey = NoKey
    /\ arg = <<>>
    /\ result = <<>>

\* cache_group_message handler, lines 148-159: it never suspends
GroupMessage(group_id, message_id, message) ==
    /\ IF ~in_whitelist(group_id)
       THEN UNCHANGED <<cache, evictedKey>>
       ELSE LET key == <<group_id, message_id>> IN
            /\ cache' = cache_put(cache, key, message)
            /\ evictedKey' = cache_put_evicts(cache, key, message)
    /\ UNCHANGED <<handlers, arg, result>>

\* group_recall handler, lines 165-174: the two gates, then the member lookup
RecallStart(s, group_id, message_id, user_id, operator_id) ==
    /\ handlers[s].pc = "idle"
    /\ IF s = 1 THEN TRUE ELSE handlers[s - 1].pc # "idle"  \* slots fill in delivery order
    /\ LET h == [handlers[s] EXCEPT !.group_id = group_id, !.message_id = message_id,
                                    !.user_id = user_id, !.operator_id = operator_id]
       IN  handlers' = [handlers EXCEPT ![s] =
              IF ~in_whitelist(group_id) THEN [h EXCEPT !.pc = "done"]
              ELSE IF ~is_self_recall(user_id, operator_id) THEN [h EXCEPT !.pc = "done"]
              ELSE [h EXCEPT !.pc = "await_lookup", !.lookups = @ + 1]]
    /\ UNCHANGED <<cache, evictedKey, arg, result>>

\* get_group_member_info returns: lines 112-124, then lines 175-210 up to the
\* next await
LookupReturn(s, outcome) ==
    /\ handlers[s].pc = "await_lookup"
    /\ LET h == [handlers[s] EXCEPT !.looked = outcome.kind] IN
       IF outcome.kind = "OtherException"
       THEN /\ handlers' = [handlers EXCEPT ![s] =
                              [h EXCEPT !.pc = "raised", !.exc = "lookup"]]
            /\ UNCHANGED cache
       ELSE LET name == IF outcome.kind = "ActionFailed"
                        THEN ToString(h.user_id)
                        ELSE member_name(outcome.member, h.user_id)
                named == [h EXCEPT !.name = name]
            IN  /\ handlers' = [handlers EXCEPT ![s] = after_name(named, cache)]
                /\ cache' = after_name_cache(named, cache)
    /\ evictedKey' = IF outcome.kind = "OtherException" THEN evictedKey ELSE NoKey
    /\ UNCHANGED <<arg, result>>

\* get_msg returns: lines 127-138, then lines 180-210 up to the next await
FetchReturn(s, outcome) ==
    /\ handlers[s].pc = "await_fetch"
    /\ LET h == [handlers[s] EXCEPT !.fetched = outcome.kind] IN
       handlers' = [handlers EXCEPT ![s] =
          IF outcome.kind = "OtherException"
          THEN [h EXCEPT !.pc = "raised", !.exc = "fetch"]
          ELSE IF outcome.kind = "ok"
               THEN dispatch([h EXCEPT !.recalled = Some(outcome.msg)])
          ELSE dispatch([h EXCEPT !.recalled = None])]
    /\ UNCHANGED <<cache, evictedKey, arg, result>>

\* send_group_msg returns: the handler goes on to its next send, or returns
SendReturn(s, outcome) ==
    /\ handlers[s].pc = "await_send"
    /\ LET h == handlers[s]
           n == Len(h.sent)
           settled == [h EXCEPT !.sent[n].status = outcome]
       IN  handlers' = [handlers EXCEPT ![s] =
              IF outcome = "failed" THEN [settled EXCEPT !.pc = "raised", !.exc = "send"]
              ELSE IF settled.voice # <<>>
                   THEN issue_send([settled EXCEPT !.voice = Tail(@)],
                                   SegMessage(<<Head(settled.voice)>>))
              ELSE [settled EXCEPT !.pc = "done"]]
    /\ UNCHANGED <<cache, evictedKey, arg, result>>

Next ==
    \/ \E g \in Groups, m \in MsgIds : \E msg \in MessagesOf(m) : GroupMessage(g, m, msg)
    \/ \E s \in Slots, g \in Groups, m \in MsgIds, u \in Users, o \in Operators :
          RecallStart(s, g, m, u, o)
    \/ \E s \in Slots, outcome \in LookupOutcomes : LookupReturn(s, outcome)
    \/ \E s \in Slots, outcome \in FetchOutcomes : FetchReturn(s, outcome)
    \/ \E s \in Slots, outcome \in SendOutcomes : SendReturn(s, outcome)

Spec == Init /\ [][Next]_vars

----------------------------------------------------------------------------
(* Properties *)

Started(h) == h.pc # "idle"

\* a recall that passed both gates of lines 167-172
Accepted(h) ==
    /\ Started(h)
    /\ h.group_id \in Whitelist
    /\ h.user_id = h.operator_id

Finished(h) == h.pc \in {"done", "raised"}

KeySeq(c) == [i \in 1..Len(c) |-> c[i].key]

\* C1: in every state a handler can observe, the cache holds at most
\* cache_max_size entries.
C1_CacheBounded == Len(cache) <= cache_max_size

\* a put at capacity has evicted while a recall handler is suspended
C1_Witness ==
    /\ Len(cache) = cache_max_size
    /\ evictedKey # NoKey
    /\ \E s \in Slots : handlers[s].pc \in {"await_lookup", "await_fetch", "await_send"}

\* C2: a put of a new key into a full cache evicts exactly the entry at the
\* head of the insertion order and appends the new one; and whatever a step
\* does, the keys that survive it keep their relative order, so the head stays
\* the next to be evicted for as long as it is present.
C2_EvictionFIFO ==
    [][ (cache' # cache \/ evictedKey' # evictedKey) =>
        /\ Len(cache) = cache_max_size =>
              \A g \in Whitelist, m \in MsgIds :
                 <<g, m>> \notin Keys(cache) =>
                    \A msg \in MessagesOf(m) :
                       GroupMessage(g, m, msg)
                       => cache' = Tail(cache) \o <<[key |-> <<g, m>>, msg |-> msg]>>
        /\ SelectSeq(KeySeq(cache), LAMBDA k : k \in Keys(cache'))
             = SelectSeq(KeySeq(cache'), LAMBDA k : k \in Keys(cache))
        /\ (cache # <<>> /\ cache[1].key \in Keys(cache'))
             => cache'[1].key = cache[1].key
      ]_vars

\* the cache is full, and the last put evicted a key that is now absent
C2_Witness ==
    /\ evictedKey # NoKey
    /\ evictedKey \notin Keys(cache)
    /\ Len(cache) = cache_max_size
    /\ \A s \in Slots : handlers[s].pc = "idle"

\* C3: a group outside the whitelist is invisible: no cache entry ever carries
\* its id, a group-message event of it leaves the cache as it was, and a recall
\* notification of it returns at once with no lookup, no pop, no fetch and no
\* send, leaving the cache as it was.
C3_NotWhitelistedInvisible ==
    /\ [](/\ \A i \in 1..Len(cache) : cache[i].key[1] \in Whitelist
          /\ \A s \in Slots :
               (Started(handlers[s]) /\ handlers[s].group_id \notin Whitelist)
               => /\ handlers[s].pc = "done"
                  /\ handlers[s].lookups = 0
                  /\ handlers[s].fetches = 0
                  /\ handlers[s].popped = "none"
                  /\ handlers[s].sent = <<>>)
    /\ [][ /\ \A g \in Groups \ Whitelist, m \in MsgIds : \A msg \in MessagesOf(m) :
                GroupMessage(g, m, msg) => cache' = cache
           /\ \A s \in Slots :
                ( /\ ~Started(handlers[s])
                  /\ Started(handlers'[s])
                  /\ handlers'[s].group_id \notin Whitelist )
                => cache' = cache
         ]_vars

\* a recall of a group outside the whitelist has returned while the cache
\* holds entries
C3_Witness ==
    /\ cache # <<>>
    /\ \E s \in Slots :
         /\ handlers[s].pc = "done"
         /\ handlers[s].group_id \notin Whitelist

\* C4: a recall whose operator is not the author of the message never sends
\* anything.
C4_OtherOperatorSilent ==
    \A s \in Slots :
        (Started(handlers[s]) /\ handlers[s].user_id # handlers[s].operator_id)
        => handlers[s].sent = <<>>

\* a recall by another operator has returned, in a whitelisted group, while
\* the recalled message is cached
C4_Witness ==
    \E s \in Slots :
        /\ handlers[s].pc = "done"
        /\ handlers[s].group_id \in Whitelist
        /\ handlers[s].user_id # handlers[s].operator_id
        /\ <<handlers[s].group_id, handlers[s].message_id>> \in Keys(cache)

\* the content of the recalled message is settled: by the pop, or by the
\* answer of the live fetch
Resolved(h) == h.popped = "hit" \/ h.fetched # "none"

FetchFailures == {"ActionFailed", "unparsable", "OtherException"}

\* C5: an accepted recall pops the cache first and calls the live fetch only
\* on a miss, once; the pop hits exactly when the key is cached and then yields
\* the cached content; the content is unavailable exactly when the pop missed
\* and the fetch failed or gave an unparsable answer.
C5_CacheThenFetch ==
    /\ [](\A s \in Slots :
            LET h == handlers[s] IN
            Accepted(h) =>
              /\ h.fetches <= 1
              /\ (h.fetches = 1) <=> (h.popped = "miss")
              /\ h.popped = "hit" => h.fetched = "none"
              /\ h.popped = "none" => h.fetched = "none"
              /\ Resolved(h) =>
                   (h.recalled.isNone
                      <=> (h.popped = "miss" /\ h.fetched \in FetchFailures)))
    /\ [][ handlers' # handlers =>
           \A s \in Slots :
              (handlers[s].popped = "none" /\ handlers'[s].popped # "none") =>
                 LET key == <<handlers[s].group_id, handlers[s].message_id>> IN
                 /\ (handlers'[s].popped = "hit") <=> (key \in Keys(cache))
                 /\ key \in Keys(cache) =>
                      handlers'[s].recalled = Some(cache[IndexOf(cache, key)].msg)
         ]_vars

\* one recall got its content from a successful live fetch after a miss, and
\* another got it from the cache
C5_Witness ==
    \E s, t \in Slots :
        /\ handlers[s].popped = "miss"
        /\ handlers[s].fetched = "ok"
        /\ ~handlers[s].recalled.isNone
        /\ handlers[t].popped = "hit"
        /\ handlers[t].fetches = 0

\* C6: after a cache miss and a failed live fetch the handler has issued
\* exactly one send, the not-captured notice, and the failure of the fetch has
\* not left the handler.
C6_FetchFailureNotice ==
    \A s \in Slots :
        LET h == handlers[s] IN
        (Accepted(h) /\ h.popped = "miss" /\ h.fetched \in {"ActionFailed", "OtherException"})
        => /\ h.exc # "fetch"
           /\ Len(h.sent) = 1
           /\ h.sent[1].message = NoticeUncaptured(h.name)

\* C7: a finished recall whose content has n >= 1 voice segments has issued
\* n+1 sends: the voice summary, then one message per voice segment holding
\* that segment alone, in the original order.
C7_VoiceSends ==
    \A s \in Slots :
        LET h == handlers[s]
            v == voice_segments(h.recalled.msg)
        IN  (Accepted(h) /\ Finished(h) /\ Resolved(h) /\ ~h.recalled.isNone /\ v # <<>>)
            => /\ Len(h.sent) = Len(v) + 1
               /\ h.sent[1].message = NoticeVoice(h.name)
               /\ \A i \in 1..Len(v) : h.sent[i + 1].message = SegMessage(<<v[i]>>)

NoticePrefixSeg(name) == TextSeg(name \o "chehuile yitiao xiaoxi:")

\* C8: a recall whose content is available and has no voice segment issues
\* exactly one send: the empty-message notice when nothing survives the
\* normaliser, else the prefix followed by the normalised segments in order.
C8_SingleNotice ==
    \A s \in Slots :
        LET h == handlers[s]
            content == build_non_voice_message(h.recalled.msg)
        IN  ( /\ Accepted(h)
              /\ Resolved(h)
              /\ ~h.recalled.isNone
              /\ voice_segments(h.recalled.msg) = <<>> )
            => /\ Len(h.sent) = 1
               /\ h.sent[1].message =
                     IF content = <<>>
                     THEN StrMessage(h.name \o "chehuile yitiao xiaoxi:[kong xiaoxi]")
                     ELSE SegMessage(<<NoticePrefixSeg(h.name)>> \o content)
               /\ h.recalled.msg = MsgEmptied =>
                     h.sent[1].message.kind = "str"
               /\ h.recalled.msg = MsgMixed =>
                     h.sent[1].message.segs =
                        << NoticePrefixSeg(h.name), TextSeg("hi"), ImageSeg("a.png"),
                           TextSeg("[biaoqing:zan]"), PlainFace, TextSeg("[shipin]"),
                           TextSeg("[wenjian]"), TextSeg("[json]") >>

\* one recall has returned after sending the notice of a mixed message, and
\* another after sending the empty-message notice
C8_Witness ==
    \E s, t \in Slots :
        /\ handlers[s].pc = "done"
        /\ handlers[s].recalled = Some(MsgMixed)
        /\ Len(handlers[s].sent) = 1
        /\ handlers[t].pc = "done"
        /\ handlers[t].recalled = Some(MsgEmptied)
        /\ Len(handlers[t].sent) = 1

\* C9: a failed member lookup never leaves the handler: the name is the user
\* id as a string and the handler goes on to resolve the content.
C9_LookupFailureFallback ==
    \A s \in Slots :
        LET h == handlers[s] IN
        (Accepted(h) /\ h.looked \in {"ActionFailed", "OtherException"})
        => /\ h.exc # "lookup"
           /\ h.name = ToString(h.user_id)
           /\ h.popped # "none"

\* C10: a failed send never leaves the handler: the handler still returns
\* normally, and in the voice branch it still issues every voice send.
C10_SendFailureIgnored ==
    \A s \in Slots :
        LET h == handlers[s]
            v == voice_segments(h.recalled.msg)
        IN  Accepted(h) =>
              /\ h.exc # "send"
              /\ \A i \in 1..Len(h.sent) :
                    (h.sent[i].status = "failed" /\ Finished(h)) =>
                       /\ h.pc = "done"
                       /\ v # <<>> => Len(h.sent) = Len(v) + 1

KeyOf(h) == <<h.group_id, h.message_id>>

\* C11: no recall handler ends in an error state: each one returns, either
\* silently at a gate or after issuing at least one notice.
C11_GracefulEnd ==
    \A s \in Slots :
        LET h == handlers[s] IN
        /\ h.pc # "raised"
        /\ h.pc = "done" =>
              \/ ~Accepted(h) /\ h.sent = <<>>
              \/ Accepted(h) /\ Len(h.sent) >= 1

\* C12: the pop is destructive: the step in which a recall gets the cached
\* content of key k leaves k absent, a pop of an absent key misses, and k comes
\* back only by a group-message event that stores it.
C12_PopDestructive ==
    [][ (handlers' # handlers \/ cache' # cache) =>
        /\ \A s \in Slots :
              (handlers[s].popped = "none" /\ handlers'[s].popped = "hit")
              => KeyOf(handlers[s]) \notin Keys(cache')
        /\ \A s \in Slots :
              ( /\ handlers[s].popped = "none"
                /\ handlers'[s].popped # "none"
                /\ KeyOf(handlers[s]) \notin Keys(cache) )
              => /\ handlers'[s].popped = "miss"
                 /\ handlers'[s].recalled.isNone
        /\ \A k \in Keys(cache') \ Keys(cache) :
              \E msg \in MessagesOf(k[2]) : GroupMessage(k[1], k[2], msg)
      ]_vars

\* two recalls of the same message: the first got the cached content, the
\* second missed
C12_Witness ==
    /\ handlers[1].popped = "hit"
    /\ handlers[2].popped = "miss"
    /\ KeyOf(handlers[1]) = KeyOf(handlers[2])
    /\ handlers[2].pc = "await_fetch"
    /\ handlers[1].pc = "done"

\* C18: a step of a recall handler leaves the cache as it was or removes the
\* one entry of the handler's own key, and that only in the step of the pop:
\* it never adds an entry, never touches another key, and a recall rejected at
\* a gate and the steps after the pop (the fetch answer, the sends) change
\* nothing.
C18_RecallFrame ==
    [][ handlers' # handlers =>
        \E s \in Slots :
           /\ handlers'[s] # handlers[s]
           /\ cache' \in {cache, SelectSeq(cache, LAMBDA e : e.key # KeyOf(handlers'[s]))}
           /\ ~Accepted(handlers'[s]) => cache' = cache
           /\ handlers[s].pc # "await_lookup" => cache' = cache
      ]_vars

\* a recall rejected at the self-recall gate left its message cached, and an
\* accepted recall of another message took its own entry and left that one
C18_Witness ==
    \E s, t \in Slots :
        /\ handlers[s].pc = "done"
        /\ handlers[s].group_id \in Whitelist
        /\ handlers[s].user_id # handlers[s].operator_id
        /\ KeyOf(handlers[s]) \in Keys(cache)
        /\ handlers[t].popped = "hit"
        /\ KeyOf(handlers[t]) # KeyOf(handlers[s])
        /\ KeyOf(handlers[t]) \notin Keys(cache)

\* C19: a group-message step of a whitelisted group leaves its key mapped to
\* its content and never evicts the key it stores; when the key was already
\* cached, the step evicts nothing and every key keeps its position, the other
\* entries their content.
C19_PutStores ==
    [][ handlers' = handlers =>
        \A g \in Whitelist, m \in MsgIds : \A msg \in MessagesOf(m) :
           GroupMessage(g, m, msg) =>
              /\ <<g, m>> \in Keys(cache')
              /\ cache'[IndexOf(cache', <<g, m>>)].msg = msg
              /\ evictedKey' # <<g, m>>
              /\ <<g, m>> \in Keys(cache) =>
                    /\ KeySeq(cache') = KeySeq(cache)
                    /\ evictedKey' = NoKey
                    /\ \A i \in 1..Len(cache) :
                          cache[i].key # <<g, m>> => cache'[i] = cache[i]
      ]_vars

\* message 1 holds its second content at the head of a full cache, behind it
\* a younger entry, and the last put evicted nothing
C19_Witness ==
    /\ Len(cache) = cache_max_size
    /\ cache_max_size > 1
    /\ cache[1] = [key |-> <<1, 1>>, msg |-> MsgVoice2]
    /\ evictedKey = NoKey
    /\ \A s \in Slots : handlers[s].pc = "idle"

\* C20: when two accepted recalls of one message are both suspended in the
\* member lookup and one of them gets the cached content, the same step
\* removes the entry and leaves the other handler where it was; a handler that
\* pops an absent key misses and goes to the live fetch.
C20_ConcurrentRecalls ==
    [][ handlers' # handlers =>
        /\ \A s, t \in Slots :
              ( /\ s # t
                /\ handlers[s].pc = "await_lookup"
                /\ handlers[t].pc = "await_lookup"
                /\ KeyOf(handlers[s]) = KeyOf(handlers[t])
                /\ handlers'[s].popped = "hit" )
              => /\ handlers'[t] = handlers[t]
                 /\ KeyOf(handlers[t]) \notin Keys(cache')
        /\ \A t \in Slots :
              ( /\ handlers[t].pc = "await_lookup"
                /\ handlers'[t].popped # "none"
                /\ KeyOf(handlers[t]) \notin Keys(cache) )
              => /\ handlers'[t].popped = "miss"
                 /\ handlers'[t].pc = "await_fetch"
                 /\ handlers'[t].fetches = 1
      ]_vars

\* two recalls of one message in flight: one sends the cached content, the
\* other waits for the live fetch
C20_Witness ==
    \E s, t \in Slots :
        /\ KeyOf(handlers[s]) = KeyOf(handlers[t])
        /\ handlers[s].popped = "hit"
        /\ handlers[s].pc = "await_send"
        /\ handlers[t].popped = "miss"
        /\ handlers[t].pc = "await_fetch"

\* C13: a put and a pop never interleave: every step that changes the cache is
\* either one whole put (the store with its eviction, no recall handler moving)
\* or one pop by one handler leaving the lookup, the cache is never left over
\* capacity, and a key enters the cache only by a put of that key.
C13_PutPopExclusive ==
    [][ cache' # cache =>
        /\ Len(cache') <= cache_max_size
        /\ \/ /\ handlers' = handlers
              /\ \E g \in Whitelist, m \in MsgIds : \E msg \in MessagesOf(m) :
                    GroupMessage(g, m, msg)
           \/ \E s \in Slots :
                 /\ handlers[s].pc = "await_lookup"
                 /\ handlers'[s].popped = "hit"
                 /\ \A t \in Slots \ {s} : handlers'[t] = handlers[t]
                 /\ cache' = SelectSeq(cache, LAMBDA e : e.key # KeyOf(handlers[s]))
        /\ \A k \in Keys(cache') \ Keys(cache) :
              /\ handlers' = handlers
              /\ \E msg \in MessagesOf(k[2]) : GroupMessage(k[1], k[2], msg)
      ]_vars

\* a put evicted at capacity after one recall had popped its entry and while
\* another is suspended in the lookup
C13_Witness ==
    \E s, t \in Slots :
        /\ handlers[s].popped = "hit"
        /\ handlers[s].pc = "await_send"
        /\ handlers[t].pc = "await_lookup"
        /\ evictedKey # NoKey
        /\ Len(cache) = cache_max_size

----------------------------------------------------------------------------
(* ContentNormalizer applied directly: _build_non_voice_message(arg), and    *)
(* once more on what it returned                                             *)

MaxSegs == 2           \* messages of up to MaxSegs segments are enumerated

RawDict(fields) == [py |-> "dict"] @@ fields

FaceNoTextId == FaceSeg([id |-> PyIntVal("76"), raw |-> RawDict([faceType |-> PyIntVal("3")])])
FaceNoTextNoId == FaceSeg([raw |-> RawDict([faceType |-> PyIntVal("3")])])
FaceBlankText ==
    FaceSeg([id |-> PyIntVal("76"),
             raw |-> RawDict([faceType |-> PyStrVal("3"), faceText |-> PyStrVal(" ")])])
FaceNullText ==
    FaceSeg([id |-> PyIntVal("76"),
             raw |-> RawDict([faceType |-> PyIntVal("3"), faceText |-> PyNone])])
FaceTypeOne ==
    FaceSeg([id |-> PyIntVal("76"),
             raw |-> RawDict([faceType |-> PyIntVal("1"), faceText |-> PyStrVal("zan")])])
FaceTypeWord ==
    FaceSeg([id |-> PyIntVal("76"),
             raw |-> RawDict([faceType |-> PyStrVal("abc"), faceText |-> PyStrVal("zan")])])
FaceTypeNull ==
    FaceSeg([id |-> PyIntVal("76"),
             raw |-> RawDict([faceType |-> PyNone, faceText |-> PyStrVal("zan")])])
FaceTypeMissing ==
    FaceSeg([id |-> PyIntVal("76"), raw |-> RawDict([faceText |-> PyStrVal("zan")])])
FaceRawNotDict == FaceSeg([id |-> PyIntVal("76"), raw |-> PyStrVal("3")])

FaceSegs ==
    {UnsupportedFace, PlainFace, FaceNoTextId, FaceNoTextNoId, FaceBlankText,
     FaceNullText, FaceTypeOne, FaceTypeWord, FaceTypeNull, FaceTypeMissing,
     FaceRawNotDict}

\* a text segment whose data has no text key
TextSegNoKey == Seg("text", [other |-> PyStrVal("x")])

NormSegs ==
    {TextSeg("hi"), TextSeg(""), TextSegNoKey, AtSeg("123"), ReplySeg("9"),
     RecordSeg("r1.amr"), ImageSeg("a.png"), VideoSeg("v.mp4"), FileSeg("f.txt"),
     Seg("json", [data |-> PyStrVal("{}")])} \cup FaceSegs

MsgExample == <<TextSeg("hi"), AtSeg("123"), ImageSeg("a.png"), RecordSeg("r1.amr")>>

NormInputs ==
    UNION {[1..k -> NormSegs] : k \in 0..MaxSegs}
        \cup {MsgExample, MsgMixed, MsgVoice2, MsgEmptied}

InitNorm ==
    /\ cache = <<>>
    /\ handlers = [s \in Slots |-> IdleHandler]
    /\ evictedKey = NoKey
    /\ arg \in NormInputs
    /\ result = <<>>

\* _build_non_voice_message on arg, then on its own output
Normalize ==
    /\ Len(result) < 2
    /\ result' = Append(result,
                        build_non_voice_message(IF result = <<>> THEN arg
                                                ELSE result[Len(result)]))
    /\ UNCHANGED <<cache, handlers, evictedKey, arg>>

NextNorm == Normalize

SpecNorm == InitNorm /\ [][NextNorm]_vars

\* C14: the output is the concatenation, in the order of the input, of what the
\* per-kind rule gives for each segment: nothing for at, reply, record and
\* empty text; the text for a non-empty text; the segment itself for an image
\* and a supported face; one text placeholder for an unsupported face;
\* "[shipin]" for video, "[wenjian]" for file, "[<kind>]" for any other kind.
FaceTypeIsThree(segment) ==
    /\ "raw" \in DOMAIN segment.data
    /\ segment.data.raw.py = "dict"
    /\ "faceType" \in DOMAIN segment.data.raw
    /\ segment.data.raw.faceType \in {PyIntVal("3"), PyStrVal("3")}

KindRule(segment, out) ==
    CASE segment.type \in {"at", "reply", "record"} -> out = <<>>
      [] segment.type = "text" ->
            IF "text" \in DOMAIN segment.data /\ segment.data.text.repr # ""
            THEN out = <<Seg("text", [text |-> segment.data.text])>>
            ELSE out = <<>>
      [] segment.type = "image" -> out = <<segment>>
      [] segment.type = "face" ->
            IF FaceTypeIsThree(segment)
            THEN /\ Len(out) = 1
                 /\ out[1].type = "text"
                 /\ out[1].data.text.py = "str"
                 /\ out[1].data.text.repr # ""
            ELSE out = <<segment>>
      [] segment.type = "video" -> out = <<Seg("text", [text |-> PyStrVal("[shipin]")])>>
      [] segment.type = "file" -> out = <<Seg("text", [text |-> PyStrVal("[wenjian]")])>>
      [] OTHER -> out = <<Seg("text", [text |-> PyStrVal("[" \o segment.type \o "]")])>>

RECURSIVE RuleInOrder(_, _)
RuleInOrder(message, out) ==
    IF message = <<>> THEN out = <<>>
    ELSE \E k \in 0..(IF Len(out) > 0 THEN 1 ELSE 0) :
            /\ KindRule(Head(message), SubSeq(out, 1, k))
            /\ RuleInOrder(Tail(message), SubSeq(out, k + 1, Len(out)))

C14_PerKindRule ==
    result # <<>> =>
        /\ RuleInOrder(arg, result[1])
        /\ arg = MsgExample => result[1] = <<TextSeg("hi"), ImageSeg("a.png")>>

\* the example of four segments, normalised
C14_Witness ==
    /\ arg = MsgExample
    /\ Len(result) = 1
    /\ result[1] = <<TextSeg("hi"), ImageSeg("a.png")>>

\* C15: a face is replaced by a placeholder exactly when its raw metadata is a
\* map whose faceType parses as 3, and is passed through otherwise; the
\* placeholder is "[biaoqing:<faceText>]" when the trimmed faceText is
\* non-empty, else "[biaoqing:<id>]" when the id is present, else "[biaoqing]".
HasFaceText(segment) ==
    /\ "faceText" \in DOMAIN segment.data.raw
    /\ segment.data.raw.faceText.py = "str"
    /\ Strip(segment.data.raw.faceText.repr) # ""

C15_FaceRule ==
    \A f \in FaceSegs :
        (arg = <<f>> /\ result # <<>>) =>
            IF FaceTypeIsThree(f)
            THEN result[1] =
                   <<TextSeg(IF HasFaceText(f)
                             THEN "[biaoqing:" \o Strip(f.data.raw.faceText.repr) \o "]"
                             ELSE IF "id" \in DOMAIN f.data
                                  THEN "[biaoqing:" \o f.data.id.repr \o "]"
                                  ELSE "[biaoqing]")>>
            ELSE result[1] = <<f>>

\* C16: normalising the output of the normaliser returns it unchanged, and a
\* message of non-empty text and image segments only is returned unchanged.
OnlyTextAndImage(message) ==
    \A i \in 1..Len(message) :
        \/ message[i].type = "image"
        \/ /\ message[i].type = "text"
           /\ DOMAIN message[i].data = {"text"}
           /\ message[i].data.text.py = "str"
           /\ message[i].data.text.repr # ""

C16_Idempotent ==
    /\ Len(result) = 2 => result[2] = result[1]
    /\ (result # <<>> /\ OnlyTextAndImage(arg)) => result[1] = arg

\* a message that the first pass changes and the second pass leaves alone
C16_Witness ==
    /\ arg = <<VideoSeg("v.mp4"), UnsupportedFace>>
    /\ Len(result) = 2
    /\ result[1] = <<TextSeg("[shipin]"), TextSeg("[biaoqing:zan]")>>
    /\ result[2] = result[1]

----------------------------------------------------------------------------
(* Config._parse_recall_group_whitelist applied directly.  A string is the   *)
(* sequence of its tokens: a digit, a blank, a comma, the full-width comma   *)
(* "FW", a bracket, a dot, or the JSON literal "true".                       *)

MaxToks == 4           \* strings of up to MaxToks tokens are enumerated

Digits == {"1", "2", "3"}
Toks == {"1", "2", " ", ",", "FW", "[", "]", ".", "true"}

CfgStr(toks) == [py |-> "str", toks |-> toks]
CfgInt(n) == [py |-> "int", n |-> n]
CfgFloat(w, f) == [py |-> "float", whole |-> w, frac |-> f]
CfgBool(b) == [py |-> "bool", b |-> b]
CfgSeq(kind, items) == [py |-> kind, items |-> items]
CfgDict == [py |-> "dict", items |-> <<>>]

Parsed(S) == [ok |-> TRUE, set |-> S]
ParseError == [ok |-> FALSE, set |-> {}]

\* s.strip()
RECURSIVE str_lstrip(_)
str_lstrip(toks) ==
    IF toks # <<>> /\ Head(toks) = " " THEN str_lstrip(Tail(toks)) ELSE toks

RECURSIVE str_rstrip(_)
str_rstrip(toks) ==
    IF toks # <<>> /\ toks[Len(toks)] = " "
    THEN str_rstrip(SubSeq(toks, 1, Len(toks) - 1))
    ELSE toks

str_strip(toks) == str_rstrip(str_lstrip(toks))

\* s.replace(old, new) for single tokens
str_replace(toks, old, new) ==
    [i \in 1..Len(toks) |-> IF toks[i] = old THEN new ELSE toks[i]]

\* s.split(sep): the pieces between the separators, empty ones included
RECURSIVE str_split_from(_, _, _)
str_split_from(toks, sep, cur) ==
    IF toks = <<>> THEN <<cur>>
    ELSE IF Head(toks) = sep
         THEN <<cur>> \o str_split_from(Tail(toks), sep, <<>>)
         ELSE str_split_from(Tail(toks), sep, Append(cur, Head(toks)))

str_split(toks, sep) == str_split_from(toks, sep, <<>>)

IsDigits(toks) == toks # <<>> /\ \A i \in 1..Len(toks) : toks[i] \in Digits

DigitVal(d) == CASE d = "1" -> 1 [] d = "2" -> 2 [] d = "3" -> 3 [] OTHER -> 0

RECURSIVE digits_value(_)
digits_value(toks) ==
    IF toks = <<>> THEN 0
    ELSE 10 * digits_value(SubSeq(toks, 1, Len(toks) - 1)) + DigitVal(toks[Len(toks)])

\* int(v): [ok, n]; a ValueError or TypeError is ok = FALSE
py_int(v) ==
    CASE v.py = "int" -> [ok |-> TRUE, n |-> v.n]
      [] v.py = "bool" -> [ok |-> TRUE, n |-> IF v.b THEN 1 ELSE 0]
      [] v.py = "float" -> [ok |-> TRUE, n |-> v.whole]
      [] v.py = "str" ->
            LET t == str_strip(v.toks) IN
            IF IsDigits(t) THEN [ok |-> TRUE, n |-> digits_value(t)]
            ELSE [ok |-> FALSE, n |-> 0]
      [] OTHER -> [ok |-> FALSE, n |-> 0]

\* the elements of a JSON array body, split at the commas outside brackets
RECURSIVE json_elements(_, _, _)
json_elements(toks, depth, cur) ==
    IF toks = <<>> THEN <<cur>>
    ELSE LET c == Head(toks) IN
         IF c = "," /\ depth = 0
         THEN <<cur>> \o json_elements(Tail(toks), 0, <<>>)
         ELSE json_elements(Tail(toks),
                            depth + (IF c = "[" THEN 1 ELSE IF c = "]" THEN -1 ELSE 0),
                            Append(cur, c))

JsonInvalid == [ok |-> FALSE, value |-> PyNone]

\* the JSON value a token sequence denotes: an integer, a decimal, true, or an
\* array of values; anything else is a JSONDecodeError
RECURSIVE json_value(_)
json_value(toks) ==
    LET t == str_strip(toks)
        dot == str_split(t, ".")
    IN  IF IsDigits(t) THEN [ok |-> TRUE, value |-> CfgInt(digits_value(t))]
        ELSE IF Len(dot) = 2 /\ IsDigits(dot[1]) /\ IsDigits(dot[2])
             THEN [ok |-> TRUE,
                   value |-> CfgFloat(digits_value(dot[1]), digits_value(dot[2]))]
        ELSE IF t = <<"true">> THEN [ok |-> TRUE, value |-> CfgBool(TRUE)]
        ELSE IF Len(t) >= 2 /\ t[1] = "[" /\ t[Len(t)] = "]"
             THEN LET body == SubSeq(t, 2, Len(t) - 1) IN
                  IF str_strip(body) = <<>>
                  THEN [ok |-> TRUE, value |-> CfgSeq("list", <<>>)]
                  ELSE LET elems == json_elements(body, 0, <<>>)
                           vals == [i \in 1..Len(elems) |-> json_value(elems[i])]
                       IN  IF \A i \in 1..Len(elems) : vals[i].ok
                           THEN [ok |-> TRUE,
                                 value |-> CfgSeq("list",
                                       [i \in 1..Len(elems) |-> vals[i].value])]
                           ELSE JsonInvalid
        ELSE JsonInvalid

\* json.loads(raw)
json_loads(toks) == json_value(toks)

\* lines 30-33: a list, tuple or set gives the set of int(item), any other
\* value the singleton of int(value)
whitelist_of_value(value) ==
    IF value.py \in {"list", "tuple", "set"}
    THEN IF \A i \in 1..Len(value.items) : py_int(value.items[i]).ok
         THEN Parsed({py_int(value.items[i]).n : i \in 1..Len(value.items)})
         ELSE ParseError
    ELSE IF py_int(value).ok THEN Parsed({py_int(value).n}) ELSE ParseError

\* lines 27-28: the comma path taken when json.loads raises
whitelist_of_parts(raw) ==
    LET split == str_split(str_replace(raw, "FW", ","), ",")
        parts == [i \in 1..Len(split) |-> str_strip(split[i])]
        kept == SelectSeq(parts, LAMBDA item : item # <<>>)
    IN  IF \A i \in 1..Len(kept) : py_int(CfgStr(kept[i])).ok
        THEN Parsed({py_int(CfgStr(kept[i])).n : i \in 1..Len(kept)})
        ELSE ParseError

parse_recall_group_whitelist(value) ==
    IF value.py = "NoneType" THEN Parsed({})
    ELSE IF value.py = "str"
         THEN LET raw == str_strip(value.toks) IN
              IF raw = <<>> THEN Parsed({})
              ELSE IF json_loads(raw).ok
                   THEN whitelist_of_value(json_loads(raw).value)
                   ELSE whitelist_of_parts(raw)
    ELSE whitelist_of_value(value)

StrCommaList == CfgStr(<<"1", ",", "2", ",", " ", "3">>)
StrJsonArray == CfgStr(<<"[", "1", ",", "2", ",", "3", "]">>)

NativeValues ==
    {PyNone, CfgInt(5), CfgBool(TRUE), CfgFloat(1, 5), CfgDict,
     CfgSeq("list", <<>>), CfgSeq("list", <<CfgInt(1), CfgInt(2), CfgInt(1)>>),
     CfgSeq("set", <<CfgInt(1), CfgInt(2)>>), CfgSeq("tuple", <<CfgInt(3)>>),
     CfgSeq("list", <<CfgInt(1), CfgDict>>),
     CfgSeq("list", <<CfgSeq("list", <<CfgInt(1)>>)>>)}

ConfigInputs ==
    {CfgStr(t) : t \in UNION {[1..k -> Toks] : k \in 0..MaxToks}}
        \cup {StrCommaList, StrJsonArray} \cup NativeValues

InitConfig ==
    /\ cache = <<>>
    /\ handlers = [s \in Slots |-> IdleHandler]
    /\ evictedKey = NoKey
    /\ arg \in ConfigInputs
    /\ result = <<>>

\* the validator runs once on the configured value
ParseWhitelist ==
    /\ result = <<>>
    /\ result' = <<parse_recall_group_whitelist(arg)>>
    /\ UNCHANGED <<cache, handlers, evictedKey, arg>>

NextConfig == ParseWhitelist

SpecConfig == InitConfig /\ [][NextConfig]_vars

\* C17: the validator returns the empty set for None, the set of the integers
\* for a native list, tuple or set of integers, for a JSON-array string of
\* integers and for a comma or full-width-comma delimited string of integers,
\* and raises for every other value that is present.
IntegerItems(items) ==
    \A i \in 1..Len(items) : IsDigits(str_strip(items[i]))

IntegerSet(items) == {digits_value(str_strip(items[i])) : i \in 1..Len(items)}

IsJsonArrayOfIntegers(t) ==
    /\ Len(t) >= 2
    /\ t[1] = "["
    /\ t[Len(t)] = "]"
    /\ \/ str_strip(SubSeq(t, 2, Len(t) - 1)) = <<>>
       \/ IntegerItems(str_split(SubSeq(t, 2, Len(t) - 1), ","))

JsonArraySet(t) ==
    IF str_strip(SubSeq(t, 2, Len(t) - 1)) = <<>> THEN {}
    ELSE IntegerSet(str_split(SubSeq(t, 2, Len(t) - 1), ","))

IsDelimitedIntegers(t) == IntegerItems(str_split(str_replace(t, "FW", ","), ","))

DelimitedSet(t) == IntegerSet(str_split(str_replace(t, "FW", ","), ","))

WellFormedWhitelist(value) ==
    CASE value.py = "NoneType" -> TRUE
      [] value.py = "int" -> TRUE
      [] value.py \in {"list", "tuple", "set"} ->
            \A i \in 1..Len(value.items) : value.items[i].py = "int"
      [] value.py = "str" ->
            LET t == str_strip(value.toks) IN
            t = <<>> \/ IsJsonArrayOfIntegers(t) \/ IsDelimitedIntegers(t)
      [] OTHER -> FALSE

WhitelistOf(value) ==
    CASE value.py = "NoneType" -> {}
      [] value.py = "int" -> {value.n}
      [] value.py \in {"list", "tuple", "set"} ->
            {value.items[i].n : i \in 1..Len(value.items)}
      [] value.py = "str" ->
            LET t == str_strip(value.toks) IN
            IF t = <<>> THEN {}
            ELSE IF IsJsonArrayOfIntegers(t) THEN JsonArraySet(t)
            ELSE DelimitedSet(t)

C17_WhitelistParse ==
    result # <<>> =>
        result[1] = IF WellFormedWhitelist(arg) THEN Parsed(WhitelistOf(arg))
                    ELSE ParseError

====
